---------------------------- MODULE Spec2Model ----------------------------
(***************************************************************************)
(* A model of twixanonymizer/anonymize.py: the header redactor             *)
(* (TwixAnonymizer.anonymize_twix_header), the two container               *)
(* readers/writers (anonymize_twix_vd, anonymize_twix_vb), the per-file    *)
(* driver (read_and_anonymize, write_csv) and the batch loop               *)
(* (anonymize_twix).                                                       *)
(*                                                                         *)
(* Bytes and characters are integers.  A byte b of a file decodes under    *)
(* latin-1 to the character with code point b.  The fixed tag literals of  *)
(* the pattern catalog (<ParamString."PatientID"> and the like) are        *)
(* carried as single elements with codes above the byte range: a tag is    *)
(* one unit of text.  Everything else of a pattern (white space, braces,   *)
(* quotes, the value) is matched character by character.                   *)
(***************************************************************************)
EXTENDS Integers, Sequences, FiniteSets, TLC

(***************************************************************************)
(* Characters                                                              *)
(***************************************************************************)
Ch ==
    [quote |-> 34, space |-> 32, nl |-> 10, lbrace |-> 123, rbrace |-> 125,
     dot |-> 46, zero |-> 48, x |-> 120, dash |-> 45, comma |-> 44, cr |-> 13,
     lbracket |-> 91, rbracket |-> 93,
     t |-> 116, r |-> 114, u |-> 117, e |-> 101, m |-> 109, a |-> 97, b |-> 98]

\* The tag literals of the catalog, one code each.
Tag ==
    [PatientID |-> 1001, DeviceSerialNumber |-> 1002, ExamMemoryUID |-> 1003,
     PatientLOID |-> 1004, StudyLOID |-> 1005, SeriesLOID |-> 1006,
     Study |-> 1007, FrameOfReference |-> 1008, Patient |-> 1009,
     MeasUID |-> 1010,
     PatientName |-> 1011, tPatientName |-> 1012, PatientsName |-> 1013,
     tPatientsName |-> 1014, InstitutionAddress |-> 1015,
     InstitutionName |-> 1016,
     PatientSex |-> 1017, lPatientSex |-> 1018, flPatientAge |-> 1019,
     flUsedPatientWeight |-> 1020, flPatientHeight |-> 1021,
     PatientBirthDay |-> 1022, ulVersion |-> 1023,
     tBodyPartExamined |-> 1024, SequenceDescription |-> 1025,
     TurboFactor |-> 1026, ReadoutOversamplingFactor |-> 1027, NSlc |-> 1028,
     PhaseEncodingLines |-> 1029, ReadFoV |-> 1030, PhaseFoV |-> 1031,
     PhaseResolution |-> 1032, TR |-> 1033, TI |-> 1034,
     flMagneticFieldStrength |-> 1035, PatientPosition |-> 1036,
     Visible |-> 1037, Precision |-> 1038, Unit |-> 1039,
     Other |-> 1040]

TagCodes == 1001..1040

\* \d, \s and \w of Python's re on str, restricted to latin-1 code points.
Digit == 48..57
White == (9..13) \cup (28..32) \cup {133, 160}
Word ==
    Digit \cup (65..90) \cup (97..122) \cup {95, 170, 178, 179, 181, 185, 186}
    \cup (188..190) \cup (192..214) \cup (216..246) \cup (248..255)
\* "." of re: any character but the newline.
AnyChar == ((0..255) \cup TagCodes) \ {Ch.nl}

(***************************************************************************)
(* Regular expressions: a pattern is a sequence of items, matched by       *)
(* backtracking in the order Python's re tries them (greedy repetition,    *)
(* alternatives left to right, leftmost match).                            *)
(***************************************************************************)
Lit(c) == [k |-> "set", s |-> {c}]
In(S) == [k |-> "set", s |-> S]
Star(S) == [k |-> "rep", s |-> S, min |-> 0]
Plus(S) == [k |-> "rep", s |-> S, min |-> 1]
Open(n) == [k |-> "open", n |-> n]
Close(n) == [k |-> "close", n |-> n]
\* ( ... )? as capturing group n
Opt(n, items) == [k |-> "opt", n |-> n, r |-> items]
\* a | b | c
Alt(alts) == [k |-> "alt", r |-> alts]

NoCaps == [n \in 1..4 |-> <<0, 0>>]
NoMatch == [ok |-> FALSE, start |-> 0, end |-> 0, caps |-> NoCaps]

\* The length of the longest run of characters of S from pos on.
RECURSIVE RunLen(_, _, _)
RunLen(S, text, pos) ==
    IF pos <= Len(text) /\ text[pos] \in S
    THEN 1 + RunLen(S, text, pos + 1)
    ELSE 0

RECURSIVE MatchAt(_, _, _, _)
RECURSIVE TryRep(_, _, _, _, _, _)
RECURSIVE TryAlt(_, _, _, _, _, _)

\* The match of items at pos (end: the position after the match).
MatchAt(items, text, pos, caps) ==
    IF items = <<>>
    THEN [ok |-> TRUE, start |-> 0, end |-> pos, caps |-> caps]
    ELSE LET h == Head(items)
             rest == Tail(items)
         IN  CASE h.k = "set" ->
                    IF pos <= Len(text) /\ text[pos] \in h.s
                    THEN MatchAt(rest, text, pos + 1, caps)
                    ELSE NoMatch
               [] h.k = "rep" ->
                    TryRep(rest, text, pos, caps, RunLen(h.s, text, pos), h.min)
               [] h.k = "open" ->
                    MatchAt(rest, text, pos, [caps EXCEPT ![h.n] = <<pos, pos>>])
               [] h.k = "close" ->
                    MatchAt(rest, text, pos, [caps EXCEPT ![h.n] = <<@[1], pos>>])
               [] h.k = "opt" ->
                    LET with == MatchAt(<<Open(h.n)>> \o h.r \o <<Close(h.n)>> \o rest,
                                        text, pos, caps)
                    IN  IF with.ok THEN with ELSE MatchAt(rest, text, pos, caps)
               [] h.k = "alt" ->
                    TryAlt(h.r, 1, rest, text, pos, caps)

\* Greedy repetition: the longest count, from n down to min, that lets the rest match.
TryRep(rest, text, pos, caps, n, min) ==
    IF n < min
    THEN NoMatch
    ELSE LET r == MatchAt(rest, text, pos + n, caps)
         IN  IF r.ok THEN r ELSE TryRep(rest, text, pos, caps, n - 1, min)

TryAlt(alts, j, rest, text, pos, caps) ==
    IF j > Len(alts)
    THEN NoMatch
    ELSE LET r == MatchAt(alts[j] \o rest, text, pos, caps)
         IN  IF r.ok THEN r ELSE TryAlt(alts, j + 1, rest, text, pos, caps)

\* The characters a match of items can start with.
First(items) == IF items[1].k = "set" THEN items[1].s ELSE items[2].s

\* re.search from position p on: the leftmost match.
SearchFrom(items, text, p) ==
    LET f == First(items)
        cand == {q \in p..Len(text) : text[q] \in f}
        tried == {[q |-> q, r |-> MatchAt(items, text, q, NoCaps)] : q \in cand}
        found == {t \in tried : t.r.ok}
    IN  IF found = {} THEN NoMatch
        ELSE LET t0 == CHOOSE t \in found : \A u \in found : t.q <= u.q
             IN  [t0.r EXCEPT !.start = t0.q]

re_search(items, text) == SearchFrom(items, text, 1)

\* match.group(n), and match.group()
Group(text, mt, n) == SubSeq(text, mt.caps[n][1], mt.caps[n][2] - 1)
Whole(text, mt) == SubSeq(text, mt.start, mt.end - 1)

Fill(c, n) == [j \in 1..n |-> c]
MapChars(S, c, s) == [j \in 1..Len(s) |-> IF s[j] \in S THEN c ELSE s[j]]

(***************************************************************************)
(* The pattern catalog of anonymize_twix_header                            *)
(***************************************************************************)
Ws == Star(White)
Quote == Lit(Ch.quote)

\* (\s*<Visible>\s*"true"\s*)? as group 2
VisibleGroup ==
    Opt(2, <<Ws, Lit(Tag.Visible), Ws, Quote, Lit(Ch.t), Lit(Ch.r), Lit(Ch.u),
             Lit(Ch.e), Quote, Ws>>)

\* <Precision> \d+\s*
PrecisionPart == <<Lit(Tag.Precision), Lit(Ch.space), Plus(Digit), Ws>>

\* (TAG\s*\{\s*\")(.+)(\"\s*\}\n)
StringRe(tag) ==
    <<Open(1), Lit(tag), Ws, Lit(Ch.lbrace), Ws, Quote, Close(1),
      Open(2), Plus(AnyChar), Close(2),
      Open(3), Quote, Ws, Lit(Ch.rbrace), Lit(Ch.nl), Close(3)>>

\* (TAG\s*\{\s*)(\d+)(\s*\}\n)
LongRe(tag) ==
    <<Open(1), Lit(tag), Ws, Lit(Ch.lbrace), Ws, Close(1),
      Open(2), Plus(Digit), Close(2),
      Open(3), Ws, Lit(Ch.rbrace), Lit(Ch.nl), Close(3)>>

\* (TAG\s*\{\s*<Precision> \d+\s*)(\d+\.\d*)(\s*\}\n)
DoubleRe(tag) ==
    <<Open(1), Lit(tag), Ws, Lit(Ch.lbrace), Ws>> \o PrecisionPart \o
    <<Close(1), Open(2), Plus(Digit), Lit(Ch.dot), Star(Digit), Close(2),
      Open(3), Ws, Lit(Ch.rbrace), Lit(Ch.nl), Close(3)>>

\* (TAG\s*\{(\s*<Visible>\s*\"true\"\s*)?\s*\")(.+)(\"\s*\}\n)
VisStringRe(tags) ==
    <<Open(1), In(tags), Ws, Lit(Ch.lbrace), VisibleGroup, Ws, Quote, Close(1),
      Open(3), Plus(AnyChar), Close(3),
      Open(4), Quote, Ws, Lit(Ch.rbrace), Lit(Ch.nl), Close(4)>>

\* (TAG\s*\{(\s*<Visible>\s*\"true\"\s*)?\s*)(\d+)(\s*\}\n)
VisLongRe(tags) ==
    <<Open(1), In(tags), Ws, Lit(Ch.lbrace), VisibleGroup, Ws, Close(1),
      Open(3), Plus(Digit), Close(3),
      Open(4), Ws, Lit(Ch.rbrace), Lit(Ch.nl), Close(4)>>

\* (TAG\s*\{(\s*<Visible>\s*\"true\"\s*)?\s*<Precision> \d+\s*)(\d+\.\d*)(\s*\}\n)
VisDoubleRe(tag) ==
    <<Open(1), Lit(tag), Ws, Lit(Ch.lbrace), VisibleGroup, Ws>> \o PrecisionPart \o
    <<Close(1), Open(3), Plus(Digit), Lit(Ch.dot), Star(Digit), Close(3),
      Open(4), Ws, Lit(Ch.rbrace), Lit(Ch.nl), Close(4)>>

\* (TAG\s*\{(...)?\s*<Unit> \"\[mm\]\"\s*<Precision> \d+\s*)(\d+\.\d*)(\s*\}\n)
HeightRe ==
    <<Open(1), Lit(Tag.flPatientHeight), Ws, Lit(Ch.lbrace), VisibleGroup, Ws,
      Lit(Tag.Unit), Lit(Ch.space), Quote, Lit(Ch.lbracket), Lit(Ch.m), Lit(Ch.m),
      Lit(Ch.rbracket), Quote, Ws>> \o PrecisionPart \o
    <<Close(1), Open(3), Plus(Digit), Lit(Ch.dot), Star(Digit), Close(3),
      Open(4), Ws, Lit(Ch.rbrace), Lit(Ch.nl), Close(4)>>

\* (TAG\s*\{(...)?\s*\")(\d{8})(\"\s*\}\n)
BirthDayRe ==
    <<Open(1), Lit(Tag.PatientBirthDay), Ws, Lit(Ch.lbrace), VisibleGroup, Ws,
      Quote, Close(1), Open(3)>> \o [j \in 1..8 |-> In(Digit)] \o
    <<Close(3), Open(4), Quote, Ws, Lit(Ch.rbrace), Lit(Ch.nl), Close(4)>>

number_buffer ==
    << <<"Patient_id", StringRe(Tag.PatientID)>>,
       <<"Device_serial", StringRe(Tag.DeviceSerialNumber)>>,
       <<"Exam_memory_uid", StringRe(Tag.ExamMemoryUID)>>,
       <<"PatientLOID", StringRe(Tag.PatientLOID)>>,
       <<"StudyLOID", StringRe(Tag.StudyLOID)>>,
       <<"SeriesLOID", StringRe(Tag.SeriesLOID)>>,
       <<"Study", StringRe(Tag.Study)>>,
       <<"FrameOfReference", StringRe(Tag.FrameOfReference)>>,
       <<"Patient", StringRe(Tag.Patient)>>,
       <<"MeasUID", StringRe(Tag.MeasUID)>> >>

x_buffer ==
    << <<"Patient_name",
         VisStringRe({Tag.PatientName, Tag.tPatientName, Tag.PatientsName,
                      Tag.tPatientsName})>>,
       <<"InstitutionAddress", VisStringRe({Tag.InstitutionAddress})>>,
       <<"InstitutionName", VisStringRe({Tag.InstitutionName})>> >>

zero_buffer ==
    << <<"Patient_gender", VisLongRe({Tag.PatientSex, Tag.lPatientSex})>>,
       <<"Patient_age", VisDoubleRe(Tag.flPatientAge)>>,
       <<"Patient_weight", VisDoubleRe(Tag.flUsedPatientWeight)>>,
       <<"Patient_height", HeightRe>>,
       <<"Patient_birthday", BirthDayRe>>,
       <<"ulVersion", VisLongRe({Tag.ulVersion})>> >>

meta_buffer ==
    << <<"tBodyPartExamined", StringRe(Tag.tBodyPartExamined)>>,
       <<"Sequence", StringRe(Tag.SequenceDescription)>>,
       <<"TurboFactor", LongRe(Tag.TurboFactor)>>,
       <<"ReadoutOversamplingFactor", DoubleRe(Tag.ReadoutOversamplingFactor)>>,
       <<"NSlc", LongRe(Tag.NSlc)>>,
       <<"PhaseEncodingLines", LongRe(Tag.PhaseEncodingLines)>>,
       <<"ReadFoV", DoubleRe(Tag.ReadFoV)>>,
       <<"PhaseFoV", DoubleRe(Tag.PhaseFoV)>>,
       <<"PhaseResolution", DoubleRe(Tag.PhaseResolution)>>,
       <<"TR", DoubleRe(Tag.TR)>>,
       <<"TI", DoubleRe(Tag.TI)>>,
       <<"flMagneticFieldStrength", DoubleRe(Tag.flMagneticFieldStrength)>>,
       <<"PatientPosition", StringRe(Tag.PatientPosition)>> >>

\* (<ParamString.\"FrameOfReference\">  { )(\".+\")(  }\n)
FrameOfReferenceRe ==
    <<Open(1), Lit(Tag.FrameOfReference), Lit(Ch.space), Lit(Ch.space),
      Lit(Ch.lbrace), Lit(Ch.space), Close(1),
      Open(2), Quote, Plus(AnyChar), Quote, Close(2),
      Open(3), Lit(Ch.space), Lit(Ch.space), Lit(Ch.rbrace), Lit(Ch.nl), Close(3)>>

\* \"[\d\.]*{0}[\d\.]*\" with the exam date token put in
SweepRe(exam_date) ==
    <<Quote, Star(Digit \cup {Ch.dot})>> \o [j \in 1..Len(exam_date) |-> Lit(exam_date[j])]
    \o <<Star(Digit \cup {Ch.dot}), Quote>>

(***************************************************************************)
(* The replacements (the lambdas handed to re.sub) and re.sub              *)
(***************************************************************************)
ReplNumber(text, mt) ==
    Group(text, mt, 1) \o Fill(Ch.zero, Len(Group(text, mt, 2))) \o Group(text, mt, 3)

ReplZero(text, mt) ==
    Group(text, mt, 1) \o MapChars(Digit, Ch.zero, Group(text, mt, 3))
    \o Group(text, mt, 4)

ReplX(text, mt) ==
    Group(text, mt, 1) \o Fill(Ch.x, Len(Group(text, mt, 3))) \o Group(text, mt, 4)

\* A sweep that leaves the match as it is.
KeepMatch(text, mt) == Whole(text, mt)

ReplSweep(text, mt) == MapChars(Word, Ch.x, Whole(text, mt))

Repl(policy, text, mt) ==
    CASE policy = "number" -> ReplNumber(text, mt)
      [] policy = "zero" -> ReplZero(text, mt)
      [] policy = "x" -> ReplX(text, mt)
      [] policy = "sweep" -> ReplSweep(text, mt)

\* The non-overlapping matches of items from position p on, left to right.
RECURSIVE FindFrom(_, _, _)
FindFrom(items, text, p) ==
    LET mt == SearchFrom(items, text, p)
    IN  IF ~mt.ok THEN <<>> ELSE <<mt>> \o FindFrom(items, text, mt.end)

re_finditer(items, text) == FindFrom(items, text, 1)

\* re.sub: every non-overlapping match, left to right, replaced.
RECURSIVE SubFrom(_, _, _, _, _)
SubFrom(policy, text, ms, j, p) ==
    IF j > Len(ms)
    THEN SubSeq(text, p, Len(text))
    ELSE SubSeq(text, p, ms[j].start - 1) \o Repl(policy, text, ms[j])
         \o SubFrom(policy, text, ms, j + 1, ms[j].end)

re_sub(items, policy, text) == SubFrom(policy, text, re_finditer(items, text), 1, 1)

\* What one re.sub replaced: per match, the field's key, its policy, the span
\* of the match and the spans of its prefix, value and suffix groups.
Replaced(key, policy, items, text, g) ==
    LET ms == re_finditer(items, text)
    IN  [j \in 1..Len(ms) |->
            [key |-> key, policy |-> policy, start |-> ms[j].start, end |-> ms[j].end,
             prefix |-> Group(text, ms[j], 1), value |-> Group(text, ms[j], g),
             suffix |-> Group(text, ms[j], g + 1)]]

(***************************************************************************)
(* _get_date: datetime.strptime(date_str, "%y%m%d").strftime("%Y-%m-%d")   *)
(***************************************************************************)
D(a, b) == (Ch.zero + a)..(Ch.zero + b)

\* The regular expression strptime compiles "%y%m%d" to:
\* (?P<y>\d\d)(?P<m>1[0-2]|0[1-9]|[1-9])(?P<d>3[0-1]|[1-2]\d|0[1-9]|[1-9]| [1-9])
StrptimeRe ==
    <<Open(1), In(Digit), In(Digit), Close(1),
      Open(2), Alt(<< <<In(D(1, 1)), In(D(0, 2))>>, <<In(D(0, 0)), In(D(1, 9))>>,
                      <<In(D(1, 9))>> >>), Close(2),
      Open(3), Alt(<< <<In(D(3, 3)), In(D(0, 1))>>, <<In(D(1, 2)), In(Digit)>>,
                      <<In(D(0, 0)), In(D(1, 9))>>, <<In(D(1, 9))>>,
                      <<Lit(Ch.space), In(D(1, 9))>> >>), Close(3)>>

\* int(s): the decimal value, surrounding blanks ignored
RECURSIVE ToInt(_)
ToInt(s) ==
    IF s = <<>> THEN 0
    ELSE IF s[Len(s)] \in Digit
         THEN 10 * ToInt(SubSeq(s, 1, Len(s) - 1)) + (s[Len(s)] - Ch.zero)
         ELSE ToInt(SubSeq(s, 1, Len(s) - 1))

\* A %y that takes every two-digit year for a year of the 2000s.
InThe2000s(yy) == 2000 + yy

\* %y: values 69-99 are 1969-1999, values 0-68 are 2000-2068
CenturyYear(yy) == IF yy <= 68 THEN 2000 + yy ELSE 1900 + yy

IsLeap(y) == (y % 4 = 0 /\ y % 100 # 0) \/ y % 400 = 0

DaysIn(y, mo) ==
    IF mo = 2 THEN (IF IsLeap(y) THEN 29 ELSE 28)
    ELSE IF mo \in {4, 6, 9, 11} THEN 30 ELSE 31

Dig(n) == Ch.zero + n

\* strftime("%Y-%m-%d")
FormatDate(y, mo, d) ==
    <<Dig(y \div 1000), Dig((y \div 100) % 10), Dig((y \div 10) % 10), Dig(y % 10),
      Ch.dash, Dig(mo \div 10), Dig(mo % 10), Ch.dash, Dig(d \div 10), Dig(d % 10)>>

\* [ok, str]: ok is FALSE where strptime raises ValueError
get_date(date_str) ==
    LET mt == MatchAt(StrptimeRe, date_str, 1, NoCaps)
        y == CenturyYear(ToInt(Group(date_str, mt, 1)))
        mo == ToInt(Group(date_str, mt, 2))
        d == ToInt(Group(date_str, mt, 3))
    IN  IF ~mt.ok \/ mt.end # Len(date_str) + 1
        THEN [ok |-> FALSE, str |-> <<>>]
        ELSE IF d > DaysIn(y, mo)
             THEN [ok |-> FALSE, str |-> <<>>]
             ELSE [ok |-> TRUE, str |-> FormatDate(y, mo, d)]

(***************************************************************************)
(* anonymize_twix_header, pass by pass                                     *)
(***************************************************************************)
NoMatches == [key \in {} |-> <<>>]
Put(mp, key, val) ==
    [q \in (DOMAIN mp) \cup {key} |-> IF q = key THEN val ELSE mp[q]]

\* s.split(".")[n]: [ok, str]; ok is FALSE where the index is out of range
RECURSIVE SplitDot(_, _)
SplitDot(s, n) ==
    LET dots == {j \in 1..Len(s) : s[j] = Ch.dot}
        first == IF dots = {} THEN Len(s) + 1
                 ELSE CHOOSE j \in dots : \A q \in dots : j <= q
    IN  IF n = 0
        THEN [ok |-> TRUE, str |-> SubSeq(s, 1, first - 1)]
        ELSE IF dots = {}
             THEN [ok |-> FALSE, str |-> <<>>]
             ELSE SplitDot(SubSeq(s, first + 1, Len(s)), n - 1)

\* s[a:b] for 0 <= a <= b
Slice(s, a, b) ==
    IF a >= Len(s) THEN <<>>
    ELSE SubSeq(s, a + 1, IF b < Len(s) THEN b ELSE Len(s))

\* Lines 237-242: [err, exam_date, formatted]
ExamDate(header_string) ==
    LET mt == re_search(FrameOfReferenceRe, header_string)
        frame_of_reference == Group(header_string, mt, 2)
        exam_date_time == SplitDot(frame_of_reference, 10)
        exam_date == Slice(exam_date_time.str, 2, 8)
        date == get_date(exam_date)
    IN  IF ~mt.ok
        THEN [err |-> "AttributeError", exam_date |-> <<>>, formatted |-> <<>>]
        ELSE IF ~exam_date_time.ok
             THEN [err |-> "IndexError", exam_date |-> <<>>, formatted |-> <<>>]
             ELSE IF ~date.ok
                  THEN [err |-> "ValueError", exam_date |-> exam_date,
                        formatted |-> <<>>]
                  ELSE [err |-> "", exam_date |-> exam_date, formatted |-> date.str]

\* Lines 244-254
RECURSIVE NumberLoop(_, _, _, _)
NumberLoop(j, header_string, mp, lg) ==
    IF j > Len(number_buffer)
    THEN [err |-> "", text |-> header_string, matches |-> mp, log |-> lg]
    ELSE LET key == number_buffer[j][1]
             buffer == number_buffer[j][2]
             mt == re_search(buffer, header_string)
         IN  IF mt.ok
             THEN NumberLoop(j + 1, re_sub(buffer, "number", header_string),
                             Put(mp, key, Group(header_string, mt, 2)),
                             lg \o Replaced(key, "number", buffer, header_string, 2))
             ELSE NumberLoop(j + 1, header_string, mp, lg)

\* Lines 256-270
RECURSIVE ZeroLoop(_, _, _, _)
ZeroLoop(j, header_string, mp, lg) ==
    IF j > Len(zero_buffer)
    THEN [err |-> "", text |-> header_string, matches |-> mp, log |-> lg]
    ELSE LET key == zero_buffer[j][1]
             buffer == zero_buffer[j][2]
             mt == re_search(buffer, header_string)
         IN  IF mt.ok
             THEN ZeroLoop(j + 1, re_sub(buffer, "zero", header_string),
                           Put(mp, key, Group(header_string, mt, 3)),
                             lg \o Replaced(key, "zero", buffer, header_string, 3))
             ELSE ZeroLoop(j + 1, header_string, mp, lg)

\* Lines 272-285: no "if match", so a pattern that does not match raises
RECURSIVE XLoop(_, _, _, _)
XLoop(j, header_string, mp, lg) ==
    IF j > Len(x_buffer)
    THEN [err |-> "", text |-> header_string, matches |-> mp, log |-> lg]
    ELSE LET key == x_buffer[j][1]
             buffer == x_buffer[j][2]
             mt == re_search(buffer, header_string)
         IN  IF mt.ok
             THEN XLoop(j + 1, re_sub(buffer, "x", header_string),
                        Put(mp, key, Group(header_string, mt, 3)),
                             lg \o Replaced(key, "x", buffer, header_string, 3))
             ELSE [err |-> "AttributeError", text |-> header_string, matches |-> mp,
                   log |-> lg]

\* Lines 288-291
RECURSIVE MetaLoop(_, _, _, _)
MetaLoop(j, header_string, mp, lg) ==
    IF j > Len(meta_buffer)
    THEN [err |-> "", text |-> header_string, matches |-> mp, log |-> lg]
    ELSE LET key == meta_buffer[j][1]
             buffer == meta_buffer[j][2]
             mt == re_search(buffer, header_string)
         IN  IF mt.ok
             THEN MetaLoop(j + 1, header_string, Put(mp, key, Group(header_string, mt, 2)), lg)
             ELSE MetaLoop(j + 1, header_string, mp, lg)

\* Lines 293-297
Sweep(header_string, exam_date) == re_sub(SweepRe(exam_date), "sweep", header_string)

\* Lines 235-299 as one function: [err, text, matches]
anonymize_twix_header(header_string) ==
    LET date == ExamDate(header_string)
        m0 == Put(NoMatches, "Exam_date", date.formatted)
        a == NumberLoop(1, header_string, m0, <<>>)
        b == ZeroLoop(1, a.text, a.matches, a.log)
        c == XLoop(1, b.text, b.matches, b.log)
        d == MetaLoop(1, c.text, c.matches, c.log)
    IN  IF date.err # ""
        THEN [err |-> date.err, text |-> header_string, matches |-> NoMatches]
        ELSE IF c.err # ""
             THEN [err |-> c.err, text |-> c.text, matches |-> c.matches]
             ELSE [err |-> "", text |-> Sweep(d.text, date.exam_date),
                   matches |-> d.matches]

(***************************************************************************)
(* Header texts handed to the redactor                                     *)
(***************************************************************************)
\* The most uncatalogued lines a header text holds.
MaxExtra == 2

\* A text written with the digits 0..9 standing for their characters.
S(s) == [j \in 1..Len(s) |-> IF s[j] <= 9 THEN Dig(s[j]) ELSE s[j]]

\* TAG  { "val"  }\n
StrLine(tag, val) ==
    <<tag, Ch.space, Ch.space, Ch.lbrace, Ch.space, Ch.quote>> \o val
    \o <<Ch.quote, Ch.space, Ch.space, Ch.rbrace, Ch.nl>>

\* TAG  { <Visible> "true" "val"  }\n
VisLine(tag, val) ==
    <<tag, Ch.space, Ch.space, Ch.lbrace, Ch.space, Tag.Visible, Ch.space, Ch.quote,
      Ch.t, Ch.r, Ch.u, Ch.e, Ch.quote, Ch.space, Ch.quote>> \o val
    \o <<Ch.quote, Ch.space, Ch.space, Ch.rbrace, Ch.nl>>

\* TAG  { val  }\n
LongLine(tag, val) ==
    <<tag, Ch.space, Ch.space, Ch.lbrace, Ch.space>> \o val
    \o <<Ch.space, Ch.space, Ch.rbrace, Ch.nl>>

\* Ten dot-terminated components of a UID.
UidHead == S(<<1, 46, 3, 46, 1, 46, 2, 46, 1, 46, 5, 46, 2, 46, 4, 46, 6, 46, 1, 46>>)

\* YYMMDD tokens: 15 June of every two-digit year, leap days on both sides of
\* strptime's pivot year, and two that are no dates (month 13, 30 February).
Tokens ==
    { <<y \div 10, y % 10, 0, 6, 1, 5>> : y \in 0..99 }
    \cup { <<6, 8, 0, 2, 2, 9>>, <<6, 9, 1, 2, 3, 1>>, <<0, 0, 0, 2, 2, 9>>,
            <<2, 3, 1, 3, 0, 1>>, <<2, 3, 0, 2, 3, 0>> }

FoRLine(form, tok) ==
    CASE form = "std" ->
           StrLine(Tag.FrameOfReference, UidHead \o S(<<3, 0>>) \o S(tok) \o S(<<1, 1, 46, 0>>))
      [] form = "short" ->
           StrLine(Tag.FrameOfReference, UidHead \o S(<<3, 0>>) \o S(SubSeq(tok, 1, 5)))
      [] form = "few" ->
           StrLine(Tag.FrameOfReference, S(<<1, 46, 2, 46>>) \o S(tok))
      [] form = "tight" ->
           <<Tag.FrameOfReference, Ch.space, Ch.lbrace, Ch.space, Ch.quote>> \o UidHead
           \o S(<<3, 0>>) \o S(tok) \o <<Ch.quote, Ch.space, Ch.rbrace, Ch.nl>>
      [] form = "none" -> <<>>

ExtraKinds == {"uid", "alpha", "chain", "bare", "exact"}

ExtraLine(kind, tok) ==
    CASE kind = "uid" -> StrLine(Tag.Other, S(<<1, 46>>) \o S(tok) \o S(<<46, 2>>))
      [] kind = "alpha" -> StrLine(Tag.Other, <<Ch.a, Ch.b>> \o S(tok))
      [] kind = "exact" -> StrLine(Tag.Other, S(tok))
      [] kind = "bare" -> <<Tag.Other, Ch.space>> \o S(tok) \o <<Ch.nl>>
      [] kind = "chain" ->
           <<Tag.Other, Ch.space, Ch.quote>> \o S(<<1>>) \o S(tok) \o <<Ch.quote>>
           \o S(tok) \o <<Ch.quote, Ch.nl>>

RECURSIVE ExtraLines(_, _)
ExtraLines(kinds, tok) ==
    IF kinds = <<>> THEN <<>>
    ELSE ExtraLine(Head(kinds), tok) \o ExtraLines(Tail(kinds), tok)

NameLine(name, tok) ==
    CASE name = "plain" -> StrLine(Tag.tPatientName, <<Ch.a, Ch.b>>)
      [] name = "vis" -> VisLine(Tag.PatientsName, S(tok))
      [] name = "none" -> <<>>

IdLine(tok) == StrLine(Tag.PatientID, S(<<7, 46>>) \o S(tok))

\* The name and the patient id: on lines of their own, or ("runon") both on
\* one line, the name first.
NameAndId(name, id, tok) ==
    CASE id = "none" -> NameLine(name, tok)
      [] id = "plain" -> IdLine(tok) \o NameLine(name, tok)
      [] id = "runon" ->
           IF name = "none" THEN IdLine(tok)
           ELSE SubSeq(NameLine(name, tok), 1, Len(NameLine(name, tok)) - 1)
                \o <<Ch.space>> \o IdLine(tok)

MoreLines ==
    StrLine(Tag.PatientBirthDay, S(<<1, 9, 8, 0, 0, 1, 1, 5>>))
    \o LongLine(Tag.lPatientSex, S(<<1>>))
    \o StrLine(Tag.tBodyPartExamined, <<Ch.a, Ch.b>>)

Render(g) ==
    FoRLine(g.form, g.tok) \o ExtraLines(g.extra, g.tok)
    \o NameAndId(g.name, g.id, g.tok)
    \o StrLine(Tag.InstitutionAddress, <<Ch.a, Ch.space>> \o S(<<1>>))
    \o VisLine(Tag.InstitutionName, <<Ch.b>>)
    \o (IF g.more THEN MoreLines ELSE <<>>)

ExtraSeqs == UNION {[1..n -> ExtraKinds] : n \in 0..MaxExtra}

Given(tok, form, name, id, more, extra) ==
    [tok |-> tok, form |-> form, name |-> name, id |-> id, more |-> more,
     extra |-> extra]

HeaderInputs ==
    {Given(tok, "std", "plain", "none", FALSE, extra) :
        tok \in Tokens, extra \in {<<>>, <<"uid">>}}
    \cup {Given(<<2, 3, 0, 6, 1, 5>>, form, "plain", "none", FALSE, <<>>) :
            form \in {"short", "few", "tight", "none"}}
    \cup {Given(<<2, 3, 0, 6, 1, 5>>, "std", na[1], na[2], FALSE, extra) :
            na \in {"plain", "vis", "none"} \X {"none", "plain", "runon"},
            extra \in ExtraSeqs}
    \cup {Given(<<2, 3, 0, 6, 1, 5>>, "std", "plain", "plain", TRUE, extra) :
            extra \in ExtraSeqs}

NoGiven == Given(<<>>, "none", "none", "none", FALSE, <<>>)

(***************************************************************************)
(* Bytes: struct.pack / struct.unpack, reads and slices                    *)
(***************************************************************************)
\* struct sizes: "II", "IIQQ64s64s", "I", and the 64s fields
SignatureSize == 8
EntrySize == 152
SizeField == 4
NameSize == 64
\* header[:-24] and header[-24:]
TrailerSize == 24
\* second_uint <= 64
MaxMeasurements == 64

\* struct.pack("I", n) and struct.pack("Q", n): little endian.  The sizes,
\* offsets and lengths of the containers modelled here stay below 2^31, so
\* the upper half of a "Q" field is zero.
U32(n) == <<n % 256, (n \div 256) % 256, (n \div 65536) % 256, (n \div 16777216) % 256>>
U64(n) == U32(n) \o U32(0)

\* struct.unpack("I", b)[0] and struct.unpack("Q", b)[0]
ToU32(b) == b[1] + 256 * b[2] + 65536 * b[3] + 16777216 * b[4]
ToU64(b) == ToU32(SubSeq(b, 1, 4))

\* fin.read(n) at position pos: the bytes there are, n at most
Read(bytes, pos, n) ==
    SubSeq(bytes, pos + 1, IF pos + n < Len(bytes) THEN pos + n ELSE Len(bytes))

\* fin.read() at position pos
ReadAll(bytes, pos) == SubSeq(bytes, pos + 1, Len(bytes))

\* header[:-24].decode("latin-1"): byte b is the character with code point b
Decode(header) ==
    [j \in 1..(IF Len(header) > TrailerSize THEN Len(header) - TrailerSize ELSE 0) |->
        header[j]]

\* header[-24:]
Trailer(header) ==
    SubSeq(header, IF Len(header) > TrailerSize THEN Len(header) - TrailerSize + 1 ELSE 1,
           Len(header))

\* anonymized_header.encode("latin-1"): the character with code point c is byte c
Encode(str) == [j \in 1..Len(str) |-> str[j]]

\* struct.unpack("IIQQ64s64s", raw)
UnpackEntry(raw) ==
    [meas_id |-> ToU32(SubSeq(raw, 1, 4)), file_id |-> ToU32(SubSeq(raw, 5, 8)),
     offset |-> ToU64(SubSeq(raw, 9, 16)), length |-> ToU64(SubSeq(raw, 17, 24)),
     patient_name |-> SubSeq(raw, 25, 24 + NameSize),
     protocol_name |-> SubSeq(raw, 25 + NameSize, 24 + 2 * NameSize)]

\* struct.pack("IIQQ64s64s", ...)
PackEntry(e) ==
    U32(e.meas_id) \o U32(e.file_id) \o U64(e.offset) \o U64(e.length)
    \o e.patient_name \o e.protocol_name

\* The bytes of a file after data was written at offset off (a gap reads as zeros).
WriteAt(bytes, off, data) ==
    LET n == IF off + Len(data) > Len(bytes) THEN off + Len(data) ELSE Len(bytes)
    IN  [j \in 1..n |->
            IF j > off /\ j <= off + Len(data) THEN data[j - off]
            ELSE IF j <= Len(bytes) THEN bytes[j] ELSE 0]

(***************************************************************************)
(* Input containers                                                        *)
(***************************************************************************)
\* The most files of a directory, and the greatest output name (the code
\* draws the name from 0..10000).
MaxFiles == 2
RandMax == 1

Trailing == [j \in 1..TrailerSize |-> 200 + j]
Payload == <<7, 0, 255>>

GoodText == Render(Given(<<2, 3, 0, 6, 1, 5>>, "std", "plain", "plain", FALSE, <<"uid">>))
OtherText == Render(Given(<<9, 9, 0, 1, 0, 1>>, "std", "vis", "none", FALSE, <<>>))
NoMaskText == Render(Given(<<2, 3, 0, 6, 1, 5>>, "std", "none", "plain", FALSE, <<>>))
NoFrameText == Render(Given(<<2, 3, 0, 6, 1, 5>>, "none", "plain", "plain", FALSE, <<>>))
BadDateText == Render(Given(<<2, 3, 1, 3, 0, 1>>, "std", "plain", "plain", FALSE, <<>>))

\* size field, text, 24 opaque bytes, measurement payload
Block(txt) == U32(SizeField + Len(txt) + TrailerSize) \o txt \o Trailing \o Payload

\* A VB container: one header block at offset 0, the payload to the end.
VbFile(txt) ==
    [bytes |-> Block(txt), trunc |-> "none",
     blocks |-> << [offset |-> 0, header_size |-> SizeField + Len(txt) + TrailerSize,
                    length |-> Len(Block(txt))] >>]

\* A VB container cut short inside its header body: the size field announces
\* cut more bytes than the file holds.
VbCut(txt, cut) ==
    [bytes |-> U32(SizeField + Len(txt) + cut + TrailerSize) \o txt
               \o [j \in 1..cut |-> Ch.space] \o SubSeq(Trailing, 1, TrailerSize - cut),
     trunc |-> "body", blocks |-> <<>>]

Entry(meas_id, offset, length) ==
    PackEntry([meas_id |-> meas_id, file_id |-> 1, offset |-> offset, length |-> length,
               patient_name |-> [j \in 1..NameSize |-> Ch.a],
               protocol_name |-> [j \in 1..NameSize |-> Ch.b]])

\* A VD container of two measurements: signature, table, one byte of padding,
\* and the two blocks.
VdFile(txt1, txt2) ==
    LET off1 == SignatureSize + 2 * EntrySize + 1
        off2 == off1 + Len(Block(txt1))
    IN  [bytes |-> U32(0) \o U32(2) \o Entry(1, off1, Len(Block(txt1)))
                   \o Entry(2, off2, Len(Block(txt2))) \o <<9>> \o Block(txt1)
                   \o Block(txt2),
         trunc |-> "none",
         blocks |-> << [offset |-> off1, header_size |-> Len(Block(txt1)) - Len(Payload),
                        length |-> Len(Block(txt1))],
                       [offset |-> off2, header_size |-> Len(Block(txt2)) - Len(Payload),
                        length |-> Len(Block(txt2))] >>]

\* A VD container that ends inside its first table entry.
VdCutEntry ==
    [bytes |-> U32(0) \o U32(1) \o SubSeq(Entry(1, SignatureSize + EntrySize, 40), 1, 100),
     trunc |-> "entry", blocks |-> <<>>]

\* A VD container that ends inside the size field of its measurement.
VdCutSize ==
    [bytes |-> U32(0) \o U32(1) \o Entry(1, SignatureSize + EntrySize, 40) \o <<40, 0>>,
     trunc |-> "size", blocks |-> <<>>]

\* A VD container with an empty measurement table.
VdEmpty == [bytes |-> U32(0) \o U32(0), trunc |-> "none", blocks |-> <<>>]

\* A file shorter than the container signature.
Stub == [bytes |-> <<1, 2, 3>>, trunc |-> "signature", blocks |-> <<>>]

Inputs ==
    << VbFile(GoodText), VdFile(GoodText, OtherText), VbFile(BadDateText),
       VbFile(NoMaskText), VbFile(NoFrameText), VbCut(GoodText, 12), VdCutEntry,
       VdCutSize, VdEmpty, Stub >>

InputIds == 1..Len(Inputs)
\* The files a directory is made of.
BatchIds == {1, 2, 3}

\* One file, or a directory of two files and more.
Batches ==
    {<<f>> : f \in InputIds} \cup UNION {[1..n -> BatchIds] : n \in 2..MaxFiles}

(***************************************************************************)
(* The record table: pandas.DataFrame(matches, index=[0]).to_csv           *)
(***************************************************************************)
\* The keys of matches in the order the code inserts them.
RECURSIVE Keys(_)
Keys(buffer) == IF buffer = <<>> THEN <<>> ELSE <<Head(buffer)[1]>> \o Keys(Tail(buffer))

MatchKeys ==
    <<"Exam_date">> \o Keys(number_buffer) \o Keys(zero_buffer) \o Keys(x_buffer)
    \o Keys(meta_buffer)

\* A column name is one unit of text, like a tag.
KeyCode(j) == 2000 + j
IdColumn == 1998
FileColumn == 1999
FileCode(f) == 3000 + f

RECURSIVE Digits(_)
Digits(n) == IF n < 10 THEN <<Dig(n)>> ELSE Digits(n \div 10) \o <<Dig(n % 10)>>

RECURSIVE Doubled(_)
Doubled(v) ==
    IF v = <<>> THEN <<>>
    ELSE (IF Head(v) = Ch.quote THEN <<Ch.quote, Ch.quote>> ELSE <<Head(v)>>)
         \o Doubled(Tail(v))

\* csv.QUOTE_MINIMAL: a cell holding a quote, a comma or a line end is quoted.
CsvField(v) ==
    IF \E j \in 1..Len(v) : v[j] \in {Ch.quote, Ch.comma, Ch.nl, Ch.cr}
    THEN <<Ch.quote>> \o Doubled(v) \o <<Ch.quote>>
    ELSE v

RECURSIVE CsvCells(_, _, _)
CsvCells(mp, j, names) ==
    IF j > Len(MatchKeys) THEN <<>>
    ELSE (IF MatchKeys[j] \in DOMAIN mp
          THEN <<Ch.comma>> \o (IF names THEN <<KeyCode(j)>> ELSE CsvField(mp[MatchKeys[j]]))
          ELSE <<>>)
         \o CsvCells(mp, j + 1, names)

\* The text of a table of one row: the line of column names, the row.
CsvText(row) ==
    <<Ch.comma, IdColumn, Ch.comma, FileColumn>> \o CsvCells(row.matches, 1, TRUE)
    \o <<Ch.nl, Ch.zero, Ch.comma>> \o Digits(row.anonymized_id)
    \o <<Ch.comma, FileCode(row.orig_filename)>> \o CsvCells(row.matches, 1, FALSE)
    \o <<Ch.nl>>

(***************************************************************************)
(* State                                                                   *)
(***************************************************************************)
VARIABLES
    \* anonymize_twix_header: its argument, its local header_string (text),
    \* matches and exam_date, and where the program stands (pc, err)
    header_string, text, matches, exam_date, pc, err,
    \* what the header text was built from, the text before the final sweep,
    \* what each re.sub replaced, the call count and the first call's result
    given, presweep, log, run, first,
    \* the files to process, the mode, the file being processed and its variant
    batch, meta_only, csv_given, buffered, cur, variant,
    \* the input file's bytes, the streams, the destination directory and the
    \* record table
    fin, fin_pos, fout, disk, csv,
    \* the locals of anonymize_twix_vd and anonymize_twix_vb
    num_measurements, i, entry, header_size, header,
    \* the bytes handed to fout.write for this file, those of the last header
    \* block, the rows written so far and how each file ended
    wrote, block, good, outcome

hvars == <<header_string, text, matches, exam_date, given, presweep, log, run, first>>
mode == <<batch, meta_only, csv_given, buffered>>
io == <<fin, fin_pos, fout, disk, csv>>
locals == <<num_measurements, i, entry, header_size, header>>
ghost == <<wrote, block, good, outcome>>
cvars == <<mode, cur, variant, io, locals, ghost>>
vars == <<hvars, pc, err, cvars>>

NoFile == [exists |-> FALSE, bytes |-> <<>>]
NoStream == [name |-> -1, pos |-> 0, boff |-> 0, buf |-> <<>>]
NoEntry == [meas_id |-> 0, file_id |-> 0, offset |-> 0, length |-> 0,
            patient_name |-> <<>>, protocol_name |-> <<>>]
NoTable == [exists |-> FALSE, rows |-> <<>>]

(***************************************************************************)
(* The output stream: a buffered writer over the file fout.name.  buf      *)
(* holds the bytes written and not yet in the file; they belong at file    *)
(* offset boff.  buffered tells whether the buffer takes all of a file's   *)
(* bytes (a small container) or none (a container far larger than it).     *)
(***************************************************************************)
Flush(s) ==
    IF s.f.buf = <<>> THEN s
    ELSE [f |-> [s.f EXCEPT !.boff = s.f.pos, !.buf = <<>>],
          d |-> [s.d EXCEPT ![s.f.name].bytes = WriteAt(@, s.f.boff, s.f.buf)]]

Write(s, data) ==
    LET t == [s EXCEPT !.f.buf = @ \o data, !.f.pos = @ + Len(data)]
    IN  IF buffered THEN t ELSE Flush(t)

Seek(s, p) == [Flush(s) EXCEPT !.f.pos = p, !.f.boff = p]

(***************************************************************************)
(* anonymize_twix_header as steps                                          *)
(***************************************************************************)
\* Where the call returns to.
ReturnTo ==
    CASE variant = "vd" -> "vd_write"
      [] variant = "vb" -> "vb_write"
      [] OTHER -> "returned"

\* Lines 235-242
HdrDate ==
    /\ pc = "hdr_date"
    /\ LET date == ExamDate(header_string)
       IN  IF date.err # ""
           THEN /\ pc' = "error"
                /\ err' = date.err
                /\ UNCHANGED <<matches, exam_date>>
           ELSE /\ pc' = "hdr_number"
                /\ matches' = Put(matches, "Exam_date", date.formatted)
                /\ exam_date' = date.exam_date
                /\ UNCHANGED err
    /\ UNCHANGED <<header_string, text, given, presweep, log, run, first, cvars>>

\* Lines 244-254
HdrNumber ==
    /\ pc = "hdr_number"
    /\ LET r == NumberLoop(1, text, matches, log)
       IN  /\ text' = r.text
           /\ matches' = r.matches
           /\ log' = r.log
    /\ pc' = "hdr_zero"
    /\ UNCHANGED <<header_string, exam_date, given, presweep, run, first, err, cvars>>

\* Lines 256-270
HdrZero ==
    /\ pc = "hdr_zero"
    /\ LET r == ZeroLoop(1, text, matches, log)
       IN  /\ text' = r.text
           /\ matches' = r.matches
           /\ log' = r.log
    /\ pc' = "hdr_x"
    /\ UNCHANGED <<header_string, exam_date, given, presweep, run, first, err, cvars>>

\* Lines 272-285
HdrX ==
    /\ pc = "hdr_x"
    /\ LET r == XLoop(1, text, matches, log)
       IN  /\ text' = r.text
           /\ matches' = r.matches
           /\ log' = r.log
           /\ pc' = IF r.err # "" THEN "error" ELSE "hdr_meta"
           /\ err' = r.err
    /\ UNCHANGED <<header_string, exam_date, given, presweep, run, first, cvars>>

\* Lines 288-291
HdrMeta ==
    /\ pc = "hdr_meta"
    /\ matches' = MetaLoop(1, text, matches, log).matches
    /\ pc' = "hdr_sweep"
    /\ UNCHANGED <<header_string, text, exam_date, given, presweep, log, run, first,
                   err, cvars>>

\* Lines 293-299
HdrSweep ==
    /\ pc = "hdr_sweep"
    /\ presweep' = text
    /\ text' = Sweep(text, exam_date)
    /\ pc' = ReturnTo
    /\ UNCHANGED <<header_string, matches, exam_date, given, log, run, first, err, cvars>>

\* A second call, on the text the first call returned.
Rerun ==
    /\ pc = "returned"
    /\ run = 1
    /\ first' = [text |-> text, matches |-> matches]
    /\ header_string' = text
    /\ matches' = NoMatches
    /\ log' = <<>>
    /\ run' = 2
    /\ pc' = "hdr_date"
    /\ UNCHANGED <<text, exam_date, given, presweep, err, cvars>>

\* The call anonymize_twix_header(header_string = str)
Call(str) ==
    /\ header_string' = str
    /\ text' = str
    /\ matches' = NoMatches
    /\ exam_date' = <<>>
    /\ presweep' = <<>>
    /\ log' = <<>>
    /\ UNCHANGED <<given, run, first>>

(***************************************************************************)
(* anonymize_twix, read_and_anonymize, write_csv                           *)
(***************************************************************************)
\* The bytes of the file at file_path
InputFile == Inputs[batch[cur]].bytes

Fail(e) ==
    /\ pc' = "error"
    /\ err' = e

\* Lines 425-429: the next file of the directory, if there is one
Loop ==
    /\ pc = "loop"
    /\ IF cur < Len(batch)
       THEN /\ cur' = cur + 1
            /\ pc' = "open"
       ELSE /\ pc' = "done"
            /\ UNCHANGED cur
    /\ UNCHANGED <<hvars, err, mode, variant, io, locals, ghost>>

\* Lines 103-120: the signature, the output file, the variant
OpenFiles ==
    /\ pc = "open"
    /\ fin' = InputFile
    /\ LET sig == Read(fin', 0, SignatureSize)
           first_uint == ToU32(SubSeq(sig, 1, 4))
           second_uint == ToU32(SubSeq(sig, 5, 8))
       IN  IF Len(sig) < SignatureSize
           THEN /\ Fail("struct.error")
                /\ UNCHANGED <<variant, fin_pos, fout, disk, csv, wrote, block>>
           ELSE /\ \E name \in 0..RandMax :
                      /\ fout' = [name |-> name, pos |-> 0, boff |-> 0, buf |-> <<>>]
                      /\ disk' = [disk EXCEPT ![name] = [exists |-> TRUE, bytes |-> <<>>]]
                /\ fin_pos' = 0
                /\ wrote' = 0
                /\ block' = -1
                /\ IF first_uint = 0 /\ second_uint <= MaxMeasurements
                   THEN variant' = "vd" /\ pc' = "vd_start"
                   ELSE variant' = "vb" /\ pc' = "vb_read"
                /\ UNCHANGED <<err, csv>>
    /\ UNCHANGED <<hvars, mode, cur, locals, good, outcome>>

\* Lines 317-320
VdStart ==
    /\ pc = "vd_start"
    /\ LET sig == Read(fin, fin_pos, SignatureSize)
           s == Write([f |-> fout, d |-> disk], U32(ToU32(SubSeq(sig, 1, 4)))
                                                  \o U32(ToU32(SubSeq(sig, 5, 8))))
       IN  /\ num_measurements' = ToU32(SubSeq(sig, 5, 8))
           /\ fin_pos' = fin_pos + Len(sig)
           /\ IF meta_only
              THEN UNCHANGED <<fout, disk, wrote>>
              ELSE fout' = s.f /\ disk' = s.d /\ wrote' = wrote + SignatureSize
    /\ i' = 0
    /\ pc' = "vd_entry"
    /\ UNCHANGED <<hvars, err, mode, cur, variant, fin, csv, entry, header_size,
                   header,
                   block, good, outcome>>

\* Lines 322-337 and 359: the next measurement's table entry and header, or
\* the return when there is none
VdEntry ==
    /\ pc = "vd_entry"
    /\ LET raw == Read(fin, SignatureSize + EntrySize * i, EntrySize)
           e == UnpackEntry(raw)
           sz == Read(fin, e.offset, SizeField)
           hd == Read(fin, e.offset + SizeField, ToU32(sz) - SizeField)
       IN  IF i >= num_measurements
           THEN /\ IF num_measurements = 0
                   THEN Fail("UnboundLocalError")
                   ELSE pc' = "write_csv" /\ UNCHANGED err
                /\ UNCHANGED <<hvars, fin_pos, entry, header_size, header, block>>
           ELSE IF Len(raw) < EntrySize
                THEN /\ Fail("struct.error")
                     /\ UNCHANGED <<hvars, fin_pos, entry, header_size, header, block>>
                ELSE IF Len(sz) < SizeField
                     THEN /\ Fail("struct.error")
                          /\ entry' = e
                          /\ fin_pos' = e.offset + Len(sz)
                          /\ UNCHANGED <<hvars, header_size, header, block>>
                     ELSE /\ entry' = e
                          /\ header_size' = ToU32(sz)
                          /\ header' = hd
                          /\ fin_pos' = e.offset + SizeField + Len(hd)
                          /\ block' = -1
                          /\ Call(Decode(hd))
                          /\ pc' = "hdr_date"
                          /\ UNCHANGED err
    /\ UNCHANGED <<mode, cur, variant, fin, fout, disk, csv, num_measurements, i,
                   wrote, good,
                   outcome>>

\* Lines 339-357
VdWrite ==
    /\ pc = "vd_write"
    /\ LET rest == Read(fin, fin_pos, entry.length - header_size)
           s1 == Seek([f |-> fout, d |-> disk], SignatureSize + EntrySize * i)
           s2 == Write(s1, PackEntry([entry EXCEPT
                                         !.patient_name = [j \in 1..NameSize |-> Ch.x]]))
           s3 == Seek(s2, entry.offset)
           s4 == Write(s3, U32(header_size))
           s5 == Write(s4, Encode(text))
           s6 == Write(s5, Trailer(header))
           s7 == Write(s6, rest)
       IN  IF meta_only
           THEN UNCHANGED <<fin_pos, fout, disk, wrote, block>>
           ELSE /\ fout' = s7.f
                /\ disk' = s7.d
                /\ fin_pos' = fin_pos + Len(rest)
                /\ wrote' = wrote + EntrySize + SizeField + Len(text)
                             + Len(Trailer(header)) + Len(rest)
                /\ block' = SizeField + Len(text) + Len(Trailer(header))
    /\ i' = i + 1
    /\ pc' = "vd_entry"
    /\ UNCHANGED <<hvars, err, mode, cur, variant, fin, csv, num_measurements, entry,
                   header_size, header, good, outcome>>

\* Lines 379-388
VbRead ==
    /\ pc = "vb_read"
    /\ LET sz == Read(fin, fin_pos, SizeField)
           hd == Read(fin, fin_pos + SizeField, ToU32(sz) - SizeField)
       IN  IF Len(sz) < SizeField
           THEN /\ Fail("struct.error")
                /\ UNCHANGED <<hvars, fin_pos, header_size, header>>
           ELSE /\ header_size' = ToU32(sz)
                /\ header' = hd
                /\ fin_pos' = fin_pos + SizeField + Len(hd)
                /\ Call(Decode(hd))
                /\ pc' = "hdr_date"
                /\ UNCHANGED err
    /\ UNCHANGED <<mode, cur, variant, fin, fout, disk, csv, num_measurements, i,
                   entry,
                   ghost>>

\* Lines 390-396
VbWrite ==
    /\ pc = "vb_write"
    /\ LET rest == ReadAll(fin, fin_pos)
           s1 == Write([f |-> fout, d |-> disk], U32(header_size))
           s2 == Write(s1, Encode(text))
           s3 == Write(s2, Trailer(header))
           s4 == Write(s3, rest)
       IN  IF meta_only
           THEN UNCHANGED <<fin_pos, fout, disk, wrote, block>>
           ELSE /\ fout' = s4.f
                /\ disk' = s4.d
                /\ fin_pos' = fin_pos + Len(rest)
                /\ wrote' = wrote + SizeField + Len(text) + Len(Trailer(header))
                             + Len(rest)
                /\ block' = SizeField + Len(text) + Len(Trailer(header))
    /\ pc' = "write_csv"
    /\ UNCHANGED <<hvars, err, mode, cur, variant, fin, csv, locals, good, outcome>>

\* Lines 141-146: the row of this file
Row == [anonymized_id |-> fout.name, orig_filename |-> batch[cur], matches |-> matches]

\* Lines 122 and 141-159: self.filename is fout.name by now
WriteCsv ==
    /\ pc = "write_csv"
    /\ IF csv_given
       THEN /\ csv' = [exists |-> TRUE,
                       rows |-> IF csv.exists THEN Append(csv.rows, Row) ELSE <<Row>>]
            /\ UNCHANGED disk
       ELSE /\ disk' = [disk EXCEPT ![fout.name] =
                                        [exists |-> TRUE, bytes |-> CsvText(Row)]]
            /\ UNCHANGED csv
    /\ good' = Append(good, Row)
    /\ pc' = "close"
    /\ UNCHANGED <<hvars, err, mode, cur, variant, fin, fin_pos, fout, locals, wrote,
                   block,
                   outcome>>

\* How the file at work ended
Ended == [file |-> batch[cur], err |-> err, wrote |-> wrote, name |-> fout.name]

\* Lines 112 (the end of the with block) and 124-127
CloseFiles ==
    /\ pc = "close"
    /\ LET s == Flush([f |-> fout, d |-> disk])
       IN  disk' = IF meta_only THEN [s.d EXCEPT ![fout.name] = NoFile] ELSE s.d
    /\ fout' = NoStream
    /\ outcome' = Append(outcome, Ended)
    /\ pc' = "loop"
    /\ UNCHANGED <<hvars, err, mode, cur, variant, fin, fin_pos, csv, locals, wrote,
                   block,
                   good>>

\* An exception leaves the with blocks (fout, if open, is flushed and closed)
\* and then read_and_anonymize, the loop of anonymize_twix and the program.
Raise ==
    /\ pc = "error"
    /\ disk' = IF fout.name = -1 THEN disk ELSE Flush([f |-> fout, d |-> disk]).d
    /\ fout' = NoStream
    /\ outcome' = Append(outcome, Ended)
    /\ pc' = "aborted"
    /\ UNCHANGED <<hvars, err, mode, cur, variant, fin, fin_pos, csv, locals, wrote,
                   block,
                   good>>

\* No file is being processed.
ContainerIdle ==
    /\ cur = 0
    /\ variant = "none"
    /\ fin = <<>>
    /\ fin_pos = 0
    /\ fout = NoStream
    /\ disk = [name \in 0..RandMax |-> NoFile]
    /\ csv = NoTable
    /\ num_measurements = 0
    /\ i = 0
    /\ entry = NoEntry
    /\ header_size = 0
    /\ header = <<>>
    /\ wrote = 0
    /\ block = -1
    /\ good = <<>>
    /\ outcome = <<>>

\* No header text is being redacted.
HeaderIdle ==
    /\ header_string = <<>>
    /\ text = <<>>
    /\ matches = NoMatches
    /\ exam_date = <<>>
    /\ presweep = <<>>
    /\ log = <<>>
    /\ run = 1
    /\ first = [text |-> <<>>, matches |-> NoMatches]
    /\ err = ""

\* The redactor alone, called on a header text and then on its own result.
InitHeader ==
    /\ given \in HeaderInputs
    /\ header_string = Render(given)
    /\ text = header_string
    /\ matches = NoMatches
    /\ exam_date = <<>>
    /\ presweep = <<>>
    /\ log = <<>>
    /\ run = 1
    /\ first = [text |-> <<>>, matches |-> NoMatches]
    /\ pc = "hdr_date"
    /\ err = ""
    /\ batch = <<>>
    /\ meta_only = FALSE
    /\ csv_given = TRUE
    /\ buffered = TRUE
    /\ ContainerIdle

NextHeader == HdrDate \/ HdrNumber \/ HdrZero \/ HdrX \/ HdrMeta \/ HdrSweep \/ Rerun

SpecHeader == InitHeader /\ [][NextHeader]_vars

\* The program: one file or a directory, in normal or metadata-only mode,
\* with csv_path given (as anonymize_twix gives it) or left at None.
Init ==
    /\ batch \in Batches
    /\ meta_only \in BOOLEAN
    /\ csv_given \in BOOLEAN
    /\ buffered \in BOOLEAN
    /\ csv_given \/ Len(batch) = 1
    /\ meta_only => buffered
    /\ given = NoGiven
    /\ HeaderIdle
    /\ pc = "loop"
    /\ ContainerIdle

Next ==
    \/ Loop \/ OpenFiles \/ VdStart \/ VdEntry \/ VdWrite \/ VbRead \/ VbWrite
    \/ HdrDate \/ HdrNumber \/ HdrZero \/ HdrX \/ HdrMeta \/ HdrSweep
    \/ WriteCsv \/ CloseFiles \/ Raise

Spec == Init /\ [][Next]_vars

(***************************************************************************)
(* The claims                                                              *)
(***************************************************************************)
\* How the file last worked on ended; FileEnded: it has just ended.
Last == outcome[Len(outcome)]
FileEnded == pc \in {"loop", "aborted"} /\ outcome # <<>> /\ Len(outcome) = cur

\* C1: a header text on which the redactor returns keeps its number of
\* characters, and the bytes written for a header block (the size field, the
\* re-encoded text, the 24 trailing bytes) are header_size in number.
C1_HeaderBlockIsHeaderSize ==
    /\ pc \in {"vd_write", "vb_write", "returned"} => Len(text) = Len(header_string)
    /\ block # -1 => block = header_size

\* The offsets (from 1) of the size field, the 24 trailing bytes and the
\* payload of every header block of input f.
Protected(f) ==
    UNION { ((b.offset + 1)..(b.offset + SizeField))
            \cup ((b.offset + b.header_size - TrailerSize + 1)..(b.offset + b.length)) :
            b \in {Inputs[f].blocks[k] : k \in 1..Len(Inputs[f].blocks)} }

\* C2: in normal mode, once a file is processed, the size field, the 24
\* trailing bytes and the payload of every header block are the same bytes
\* at the same offsets in the input and in the output container.
C2_OutsideTextIdentical ==
    (FileEnded /\ ~meta_only /\ Last.err = "" /\ Inputs[Last.file].trunc = "none") =>
        /\ disk[Last.name].exists
        /\ \A j \in Protected(Last.file) :
              /\ j <= Len(disk[Last.name].bytes)
              /\ disk[Last.name].bytes[j] = Inputs[Last.file].bytes[j]

\* C3: when the processing of a file ended in a fatal condition, no output
\* container of that file exists in the destination directory, empty or not.
C3_NoOutputAfterFatal ==
    (FileEnded /\ Last.err # "") => (Last.name = -1 \/ ~disk[Last.name].exists)

\* C4: a fatal failure of one file of a directory ends that file only: the
\* files after it are processed all the same, and the record table keeps
\* the rows of the files processed before it.
C4_BatchSurvivesFailure ==
    pc = "aborted" =>
        /\ cur = Len(batch)
        /\ csv_given => csv.rows = good

\* Quoted strings of a text s: p and q are two quotes with no quote and no
\* line end between them.
QuotedString(s, p, q) ==
    /\ p < q
    /\ s[p] = Ch.quote
    /\ s[q] = Ch.quote
    /\ \A j \in (p + 1)..(q - 1) : s[j] \notin {Ch.quote, Ch.nl}

\* The token tok occurs between the quotes p and q of s.
HoldsToken(s, p, q, tok) ==
    \E a \in (p + 1)..(q - Len(tok)) : \A j \in 1..Len(tok) : s[a + j - 1] = tok[j]

DigitsAndDots(s, p, q) == \A j \in (p + 1)..(q - 1) : s[j] \in Digit \cup {Ch.dot}

\* From p to q the returned text is the text before the sweep with every
\* word character replaced by x; Untouched: it is that text as it was.
Swept(p, q) ==
    \A j \in p..q : text[j] = IF presweep[j] \in Word THEN Ch.x ELSE presweep[j]
Untouched(p, q) == \A j \in (p + 1)..(q - 1) : text[j] = presweep[j]

MaskKeys == {x_buffer[k][1] : k \in 1..Len(x_buffer)}
BlankKeys == {number_buffer[k][1] : k \in 1..Len(number_buffer)}

\* C6: a second run on the text a first run returned does not crash, leaves
\* the text as it is and records no mask or numeric-blank field.
C6_SecondRunIsNoOp ==
    (run = 2 /\ pc \in {"returned", "error"}) =>
        /\ pc = "returned"
        /\ text = first.text
        /\ DOMAIN matches \cap (MaskKeys \cup BlankKeys) = {}

\* The year, month and day a YYMMDD token names, the century being c.
TokenYear(tok) == 10 * tok[1] + tok[2]
TokenMonth(tok) == 10 * tok[3] + tok[4]
TokenDay(tok) == 10 * tok[5] + tok[6]
Pivot(tok) == IF TokenYear(tok) <= 68 THEN 20 ELSE 19

\* The token names a day of the calendar.
ValidToken(tok) ==
    /\ TokenMonth(tok) \in 1..12
    /\ TokenDay(tok) >= 1
    /\ TokenDay(tok) <= IF TokenMonth(tok) = 2
                        THEN (IF IsLeap(100 * Pivot(tok) + TokenYear(tok)) THEN 29 ELSE 28)
                        ELSE IF TokenMonth(tok) \in {4, 6, 9, 11} THEN 30 ELSE 31

\* CCYY-MM-DD
DateText(c, tok) ==
    <<Dig(c \div 10), Dig(c % 10), Dig(tok[1]), Dig(tok[2]), Ch.dash, Dig(tok[3]),
      Dig(tok[4]), Ch.dash, Dig(tok[5]), Dig(tok[6])>>

\* The header's frame-of-reference value has the token as characters 2..8 of
\* its 11th component, and the date step is over.
DateTaken ==
    /\ run = 1
    /\ given.form = "std"
    /\ ValidToken(given.tok)
    /\ pc # "hdr_date"

\* C7 as stated: Exam_date is (2000+YY)-MM-DD for every YY, and is set
\* before any field is redacted.
C7_ExamDateIn2000s ==
    DateTaken =>
        /\ "Exam_date" \in DOMAIN matches
        /\ matches["Exam_date"] = DateText(20, given.tok)
        /\ pc = "hdr_number" => (text = header_string /\ log = <<>>)

\* C7, amended: Exam_date is (2000+YY)-MM-DD for YY in 00..68 and
\* (1900+YY)-MM-DD for YY in 69..99, and is set before any field is redacted.
C7_ExamDateByPivot ==
    DateTaken =>
        /\ "Exam_date" \in DOMAIN matches
        /\ matches["Exam_date"] = DateText(Pivot(given.tok), given.tok)
        /\ pc = "hdr_number" => (text = header_string /\ log = <<>>)

\* The date of a token of the years 69..99 was taken, nothing redacted yet.
C7_Witness ==
    /\ DateTaken
    /\ pc = "hdr_number"
    /\ TokenYear(given.tok) >= 69
    /\ matches["Exam_date"] = DateText(19, given.tok)

FillOf(policy) == IF policy = "number" THEN Ch.zero ELSE Ch.x

\* C8: in the returned text the value of every matched numeric-blank field
\* and of every mask field is its fill character ('0', 'x') repeated to the
\* length of the original value, between the field's prefix and suffix as
\* they were.
C8_ValuesFilled ==
    (pc = "returned" /\ run = 1) =>
        \A k \in 1..Len(log) :
            log[k].policy \in {"number", "x"} =>
                SubSeq(text, log[k].start, log[k].end - 1)
                    = log[k].prefix \o Fill(FillOf(log[k].policy), Len(log[k].value))
                      \o log[k].suffix

\* A non-empty record of the file that ended as o is on disk: a row of the
\* record table, or a file that is the table of its row.
RecordOnDisk(o) ==
    \/ /\ csv.exists
       /\ \E k \in 1..Len(csv.rows) :
             csv.rows[k].orig_filename = o.file /\ DOMAIN csv.rows[k].matches # {}
    \/ \E name \in DOMAIN disk :
          disk[name].exists /\ good # <<>> /\ disk[name].bytes = CsvText(good[Len(good)])

\* C9: in metadata-only mode, csv_path given or not, once a valid input is
\* processed a non-empty record of it is on disk and no output container is.
C9_MetaOnlyLeavesRecord ==
    (FileEnded /\ meta_only /\ Last.err = "" /\ Inputs[Last.file].trunc = "none") =>
        /\ RecordOnDisk(Last)
        /\ \A name \in DOMAIN disk : ~disk[name].exists

\* C10: a file that offers fewer bytes than a fixed-width read requires
\* fails with an error, and nothing was written to the output container.
C10_TruncatedFailsUnwritten ==
    \A k \in 1..Len(outcome) :
        Inputs[outcome[k].file].trunc # "none" =>
            (outcome[k].err # "" /\ outcome[k].wrote = 0)


\* The files that were given an output path: all but those that failed on
\* the signature read, before line 110.
Named == {k \in 1..Len(outcome) : outcome[k].name # -1}

\* C11: no two processed files are given the same output path, and the output
\* container of an earlier file is not overwritten: where the containers are
\* kept and the table goes to csv_path, the file an intact input was redacted
\* into still has that input's length.
C11_OutputNamesUnique ==
    /\ \A k, l \in Named : k # l => outcome[k].name # outcome[l].name
    /\ \A k \in Named : outcome[k].name # fout.name
    /\ (~meta_only /\ csv_given) =>
          \A k \in Named :
             (outcome[k].err = "" /\ Inputs[outcome[k].file].trunc = "none") =>
                 /\ disk[outcome[k].name].exists
                 /\ Len(disk[outcome[k].name].bytes)
                      = Len(Inputs[outcome[k].file].bytes)
====
